---- MODULE Spec2Model ----
(***************************************************************************)
(* Model of TransactionProcessor (src/src/transaction_processor.rs): the   *)
(* replay of a stream of deposit / withdrawal / dispute / resolve /        *)
(* chargeback records against the accounts map and the transaction log.    *)
(*                                                                         *)
(* Money is f32 in the source.  The amounts drawn here are small whole     *)
(* numbers, and every balance the model reaches is a whole number far      *)
(* below 2^24, where f32 addition and subtraction are exact; Int           *)
(* arithmetic is therefore what the code computes on these inputs.         *)
(***************************************************************************)
EXTENDS Integers, Sequences, FiniteSets

\* ---- bounds of the model ------------------------------------------------
MaxAmount == 2          \* amounts are 1..MaxAmount
MaxEvents == 4          \* records read from the stream in one run

Clients == {1, 2}       \* client ids (u16) that occur in the stream
Txs     == {1, 2}       \* transaction ids (u32) that occur in the stream
Amounts == 1..MaxAmount

\* ---- Option<f32> ---------------------------------------------------------
None      == <<>>
Some(x)   == <<x>>
unwrap(o) == o[1]

\* ---- enum Action, struct Record -----------------------------------------
Action == {"deposit", "withdrawal", "dispute", "resolve", "chargeback"}

\* The records the reader can yield: a deposit or withdrawal with or
\* without an amount, a dispute, resolve or chargeback without one.
Record ==
    [action : {"deposit", "withdrawal"}, client : Clients, transaction : Txs,
     amount : {Some(a) : a \in Amounts} \cup {None}]
    \cup
    [action : {"dispute", "resolve", "chargeback"}, client : Clients,
     transaction : Txs, amount : {None}]

\* ---- struct ClientAccount -----------------------------------------------
ClientAccount(c, av, he, to, lo) ==
    [client |-> c, available |-> av, held |-> he, total |-> to, locked |-> lo]

VARIABLES
    accounts,          \* HashMap<u16, ClientAccount>
    transaction_log,   \* HashMap<u32, Record>
    record,            \* stream_csv: the record read last (NoRecord before the first)
    count,             \* stream_csv: how many records have been read
    panicked,          \* an unwrap()/expect() on None has aborted the run
    before,            \* the accounts as they were when the last record was read
    history            \* the records read so far, in order; kept by SpecTrace only

vars == <<accounts, transaction_log, record, count, panicked, before, history>>

\* The value of record before anything is read.
NoRecord == [action |-> "none", client |-> 0, transaction |-> 0, amount |-> None]

\* HashMap::insert: add the key or overwrite its value.
insert(map, k, v) == [x \in DOMAIN map \cup {k} |-> IF x = k THEN v ELSE map[x]]

\* TransactionProcessor::new
Init ==
    /\ accounts = <<>>
    /\ transaction_log = <<>>
    /\ record = NoRecord
    /\ count = 0
    /\ panicked = FALSE
    /\ before = <<>>
    /\ history = <<>>

\* for result in rdr.deserialize() { let record: Record = result?; ... }
\* One more record is read; nothing is read after a panic.  before keeps
\* the accounts the handler of the record starts from.
\* With traced, the record is also appended to history.
read(rec, traced) ==
    /\ ~panicked
    /\ count < MaxEvents
    /\ record' = rec
    /\ count' = count + 1
    /\ before' = accounts
    /\ history' = IF traced THEN Append(history, rec) ELSE history

panic == /\ panicked' = TRUE
         /\ UNCHANGED <<accounts, transaction_log>>

\* As handle_deposit, but an existing account is replaced by a fresh
\* ClientAccount value carrying the new balances, which resets locked.
handle_deposit_reinserts(deposit) ==
    IF deposit.amount = None
    THEN panic
    ELSE LET deposit_amount == unwrap(deposit.amount) IN
         /\ accounts' =
               IF deposit.client \in DOMAIN accounts
               THEN insert(accounts, deposit.client,
                           ClientAccount(deposit.client,
                               accounts[deposit.client].available + deposit_amount,
                               accounts[deposit.client].held,
                               accounts[deposit.client].total + deposit_amount,
                               FALSE))
               ELSE insert(accounts, deposit.client,
                           ClientAccount(deposit.client, deposit_amount, 0,
                                         deposit_amount, FALSE))
         /\ transaction_log' = insert(transaction_log, deposit.transaction, deposit)
         /\ UNCHANGED panicked

\* As handle_deposit, but a new account starts with total 0.
handle_deposit_new_zero_total(deposit) ==
    IF deposit.amount = None
    THEN panic
    ELSE LET deposit_amount == unwrap(deposit.amount) IN
         /\ accounts' =
               IF deposit.client \in DOMAIN accounts
               THEN [accounts EXCEPT
                       ![deposit.client].available = @ + deposit_amount,
                       ![deposit.client].total = @ + deposit_amount]
               ELSE insert(accounts, deposit.client,
                           ClientAccount(deposit.client, deposit_amount, 0,
                                         0, FALSE))
         /\ transaction_log' = insert(transaction_log, deposit.transaction, deposit)
         /\ UNCHANGED panicked

\* As handle_deposit, but an entry already in the log is kept
\* (entry(..).or_insert(..) in place of insert).
handle_deposit_keeps_first(deposit) ==
    IF deposit.amount = None
    THEN panic
    ELSE LET deposit_amount == unwrap(deposit.amount) IN
         /\ accounts' =
               IF deposit.client \in DOMAIN accounts
               THEN [accounts EXCEPT
                       ![deposit.client].available = @ + deposit_amount,
                       ![deposit.client].total = @ + deposit_amount]
               ELSE insert(accounts, deposit.client,
                           ClientAccount(deposit.client, deposit_amount, 0,
                                         deposit_amount, FALSE))
         /\ transaction_log' =
               IF deposit.transaction \in DOMAIN transaction_log
               THEN transaction_log
               ELSE insert(transaction_log, deposit.transaction, deposit)
         /\ UNCHANGED panicked

\* As handle_deposit, but an existing account's total is not raised.
handle_deposit_keeps_total(deposit) ==
    IF deposit.amount = None
    THEN panic
    ELSE LET deposit_amount == unwrap(deposit.amount) IN
         /\ accounts' =
               IF deposit.client \in DOMAIN accounts
               THEN [accounts EXCEPT
                       ![deposit.client].available = @ + deposit_amount]
               ELSE insert(accounts, deposit.client,
                           ClientAccount(deposit.client, deposit_amount, 0,
                                         deposit_amount, FALSE))
         /\ transaction_log' = insert(transaction_log, deposit.transaction, deposit)
         /\ UNCHANGED panicked

handle_deposit(deposit) ==
    IF deposit.amount = None
    THEN panic
    ELSE LET deposit_amount == unwrap(deposit.amount) IN
         /\ accounts' =
               IF deposit.client \in DOMAIN accounts
               THEN [accounts EXCEPT
                       ![deposit.client].available = @ + deposit_amount,
                       ![deposit.client].total = @ + deposit_amount]
               ELSE insert(accounts, deposit.client,
                           ClientAccount(deposit.client, deposit_amount, 0,
                                         deposit_amount, FALSE))
         /\ transaction_log' = insert(transaction_log, deposit.transaction, deposit)
         /\ UNCHANGED panicked

\* As handle_withdrawal, but without the test for sufficient funds.
handle_withdrawal_unchecked(withdrawal) ==
    IF withdrawal.amount = None
    THEN panic
    ELSE LET withdrawal_amount == unwrap(withdrawal.amount) IN
         /\ accounts' =
               IF withdrawal.client \in DOMAIN accounts
               THEN [accounts EXCEPT
                       ![withdrawal.client].available = @ - withdrawal_amount,
                       ![withdrawal.client].total = @ - withdrawal_amount]
               ELSE accounts
         /\ transaction_log' =
               insert(transaction_log, withdrawal.transaction, withdrawal)
         /\ UNCHANGED panicked

\* As handle_withdrawal, but the account is fetched with
\* entry(..).or_insert(..): a withdrawal for an unknown client creates an
\* empty account.
handle_withdrawal_creates(withdrawal) ==
    IF withdrawal.amount = None
    THEN panic
    ELSE LET withdrawal_amount == unwrap(withdrawal.amount)
             accs == IF withdrawal.client \in DOMAIN accounts
                     THEN accounts
                     ELSE insert(accounts, withdrawal.client,
                                 ClientAccount(withdrawal.client, 0, 0, 0, FALSE))
         IN
         /\ accounts' =
               IF accs[withdrawal.client].available - withdrawal_amount >= 0
               THEN [accs EXCEPT
                       ![withdrawal.client].available = @ - withdrawal_amount,
                       ![withdrawal.client].total = @ - withdrawal_amount]
               ELSE accs
         /\ transaction_log' =
               insert(transaction_log, withdrawal.transaction, withdrawal)
         /\ UNCHANGED panicked

\* As handle_withdrawal, but the test is > 0.0 in place of >= 0.0.
handle_withdrawal_strict(withdrawal) ==
    IF withdrawal.amount = None
    THEN panic
    ELSE LET withdrawal_amount == unwrap(withdrawal.amount) IN
         /\ accounts' =
               IF /\ withdrawal.client \in DOMAIN accounts
                  /\ accounts[withdrawal.client].available - withdrawal_amount > 0
               THEN [accounts EXCEPT
                       ![withdrawal.client].available = @ - withdrawal_amount,
                       ![withdrawal.client].total = @ - withdrawal_amount]
               ELSE accounts
         /\ transaction_log' =
               insert(transaction_log, withdrawal.transaction, withdrawal)
         /\ UNCHANGED panicked

\* As handle_withdrawal, but the record is put in the log before its amount
\* is unwrapped.
handle_withdrawal_logs_first(withdrawal) ==
    IF withdrawal.amount = None
    THEN /\ transaction_log' =
               insert(transaction_log, withdrawal.transaction, withdrawal)
         /\ panicked' = TRUE
         /\ UNCHANGED accounts
    ELSE LET withdrawal_amount == unwrap(withdrawal.amount) IN
         /\ accounts' =
               IF /\ withdrawal.client \in DOMAIN accounts
                  /\ accounts[withdrawal.client].available - withdrawal_amount >= 0
               THEN [accounts EXCEPT
                       ![withdrawal.client].available = @ - withdrawal_amount,
                       ![withdrawal.client].total = @ - withdrawal_amount]
               ELSE accounts
         /\ transaction_log' =
               insert(transaction_log, withdrawal.transaction, withdrawal)
         /\ UNCHANGED panicked

handle_withdrawal(withdrawal) ==
    IF withdrawal.amount = None
    THEN panic
    ELSE LET withdrawal_amount == unwrap(withdrawal.amount) IN
         /\ accounts' =
               IF /\ withdrawal.client \in DOMAIN accounts
                  /\ accounts[withdrawal.client].available - withdrawal_amount >= 0
               THEN [accounts EXCEPT
                       ![withdrawal.client].available = @ - withdrawal_amount,
                       ![withdrawal.client].total = @ - withdrawal_amount]
               ELSE accounts
         /\ transaction_log' =
               insert(transaction_log, withdrawal.transaction, withdrawal)
         /\ UNCHANGED panicked

\* As handle_dispute, but available is not reduced.
handle_dispute_keeps_available(dispute) ==
    IF /\ dispute.client \in DOMAIN accounts
       /\ dispute.transaction \in DOMAIN transaction_log
    THEN LET tx == transaction_log[dispute.transaction] IN
         IF tx.amount = None
         THEN panic
         ELSE /\ accounts' = [accounts EXCEPT
                     ![dispute.client].held = @ + unwrap(tx.amount)]
              /\ UNCHANGED <<transaction_log, panicked>>
    ELSE UNCHANGED <<accounts, transaction_log, panicked>>

\* As handle_dispute, but the account is looked up by the client of the
\* logged transaction, not by the client of the dispute.
handle_dispute_entry_owner(dispute) ==
    IF /\ dispute.client \in DOMAIN accounts
       /\ dispute.transaction \in DOMAIN transaction_log
       /\ transaction_log[dispute.transaction].client \in DOMAIN accounts
    THEN LET tx == transaction_log[dispute.transaction] IN
         IF tx.amount = None
         THEN panic
         ELSE /\ accounts' = [accounts EXCEPT
                     ![tx.client].held = @ + unwrap(tx.amount),
                     ![tx.client].available = @ - unwrap(tx.amount)]
              /\ UNCHANGED <<transaction_log, panicked>>
    ELSE UNCHANGED <<accounts, transaction_log, panicked>>

\* As handle_dispute, but total is reduced along with available.
handle_dispute_reduces_total(dispute) ==
    IF /\ dispute.client \in DOMAIN accounts
       /\ dispute.transaction \in DOMAIN transaction_log
    THEN LET tx == transaction_log[dispute.transaction] IN
         IF tx.amount = None
         THEN panic
         ELSE /\ accounts' = [accounts EXCEPT
                     ![dispute.client].held = @ + unwrap(tx.amount),
                     ![dispute.client].available = @ - unwrap(tx.amount),
                     ![dispute.client].total = @ - unwrap(tx.amount)]
              /\ UNCHANGED <<transaction_log, panicked>>
    ELSE UNCHANGED <<accounts, transaction_log, panicked>>

handle_dispute(dispute) ==
    IF /\ dispute.client \in DOMAIN accounts
       /\ dispute.transaction \in DOMAIN transaction_log
    THEN LET tx == transaction_log[dispute.transaction] IN
         IF tx.amount = None
         THEN panic
         ELSE /\ accounts' = [accounts EXCEPT
                     ![dispute.client].held = @ + unwrap(tx.amount),
                     ![dispute.client].available = @ - unwrap(tx.amount)]
              /\ UNCHANGED <<transaction_log, panicked>>
    ELSE UNCHANGED <<accounts, transaction_log, panicked>>

\* As handle_resolve, but the account is touched before the transaction is
\* looked up: a resolve of an unknown transaction clears the held funds.
handle_resolve_before_lookup(resolve) ==
    IF resolve.client \in DOMAIN accounts
    THEN IF resolve.transaction \in DOMAIN transaction_log
         THEN LET tx == transaction_log[resolve.transaction] IN
              IF tx.amount = None
              THEN panic
              ELSE /\ accounts' = [accounts EXCEPT
                          ![resolve.client].held = @ - unwrap(tx.amount),
                          ![resolve.client].available = @ + unwrap(tx.amount)]
                   /\ UNCHANGED <<transaction_log, panicked>>
         ELSE /\ accounts' = [accounts EXCEPT
                     ![resolve.client].available = @ + accounts[resolve.client].held,
                     ![resolve.client].held = 0]
              /\ UNCHANGED <<transaction_log, panicked>>
    ELSE UNCHANGED <<accounts, transaction_log, panicked>>

\* As handle_resolve, with the two signs exchanged.
handle_resolve_swapped(resolve) ==
    IF /\ resolve.client \in DOMAIN accounts
       /\ resolve.transaction \in DOMAIN transaction_log
    THEN LET tx == transaction_log[resolve.transaction] IN
         IF tx.amount = None
         THEN panic
         ELSE /\ accounts' = [accounts EXCEPT
                     ![resolve.client].held = @ + unwrap(tx.amount),
                     ![resolve.client].available = @ - unwrap(tx.amount)]
              /\ UNCHANGED <<transaction_log, panicked>>
    ELSE UNCHANGED <<accounts, transaction_log, panicked>>

\* As handle_resolve, but total is raised along with available.
handle_resolve_raises_total(resolve) ==
    IF /\ resolve.client \in DOMAIN accounts
       /\ resolve.transaction \in DOMAIN transaction_log
    THEN LET tx == transaction_log[resolve.transaction] IN
         IF tx.amount = None
         THEN panic
         ELSE /\ accounts' = [accounts EXCEPT
                     ![resolve.client].held = @ - unwrap(tx.amount),
                     ![resolve.client].available = @ + unwrap(tx.amount),
                     ![resolve.client].total = @ + unwrap(tx.amount)]
              /\ UNCHANGED <<transaction_log, panicked>>
    ELSE UNCHANGED <<accounts, transaction_log, panicked>>

handle_resolve(resolve) ==
    IF /\ resolve.client \in DOMAIN accounts
       /\ resolve.transaction \in DOMAIN transaction_log
    THEN LET tx == transaction_log[resolve.transaction] IN
         IF tx.amount = None
         THEN panic
         ELSE /\ accounts' = [accounts EXCEPT
                     ![resolve.client].held = @ - unwrap(tx.amount),
                     ![resolve.client].available = @ + unwrap(tx.amount)]
              /\ UNCHANGED <<transaction_log, panicked>>
    ELSE UNCHANGED <<accounts, transaction_log, panicked>>

\* As handle_chargeback, but total is not reduced.
handle_chargeback_keeps_total(chargeback) ==
    IF /\ chargeback.client \in DOMAIN accounts
       /\ chargeback.transaction \in DOMAIN transaction_log
    THEN LET tx == transaction_log[chargeback.transaction] IN
         IF tx.amount = None
         THEN panic
         ELSE /\ accounts' = [accounts EXCEPT
                     ![chargeback.client].held = @ - unwrap(tx.amount),
                     ![chargeback.client].locked = TRUE]
              /\ UNCHANGED <<transaction_log, panicked>>
    ELSE UNCHANGED <<accounts, transaction_log, panicked>>

\* As handle_chargeback, but the amount is taken from available, not held.
handle_chargeback_from_available(chargeback) ==
    IF /\ chargeback.client \in DOMAIN accounts
       /\ chargeback.transaction \in DOMAIN transaction_log
    THEN LET tx == transaction_log[chargeback.transaction] IN
         IF tx.amount = None
         THEN panic
         ELSE /\ accounts' = [accounts EXCEPT
                     ![chargeback.client].available = @ - unwrap(tx.amount),
                     ![chargeback.client].total = @ - unwrap(tx.amount),
                     ![chargeback.client].locked = TRUE]
              /\ UNCHANGED <<transaction_log, panicked>>
    ELSE UNCHANGED <<accounts, transaction_log, panicked>>

handle_chargeback(chargeback) ==
    IF /\ chargeback.client \in DOMAIN accounts
       /\ chargeback.transaction \in DOMAIN transaction_log
    THEN LET tx == transaction_log[chargeback.transaction] IN
         IF tx.amount = None
         THEN panic
         ELSE /\ accounts' = [accounts EXCEPT
                     ![chargeback.client].held = @ - unwrap(tx.amount),
                     ![chargeback.client].total = @ - unwrap(tx.amount),
                     ![chargeback.client].locked = TRUE]
              /\ UNCHANGED <<transaction_log, panicked>>
    ELSE UNCHANGED <<accounts, transaction_log, panicked>>

\* stream_csv: match record.action { ... }, one arm per action.
Deposit(traced) ==
    \E rec \in Record :
        rec.action = "deposit" /\ read(rec, traced) /\ handle_deposit(rec)

Withdrawal(traced) ==
    \E rec \in Record :
        rec.action = "withdrawal" /\ read(rec, traced) /\ handle_withdrawal(rec)

Dispute(traced) ==
    \E rec \in Record :
        rec.action = "dispute" /\ read(rec, traced) /\ handle_dispute(rec)

Resolve(traced) ==
    \E rec \in Record :
        rec.action = "resolve" /\ read(rec, traced) /\ handle_resolve(rec)

Chargeback(traced) ==
    \E rec \in Record :
        rec.action = "chargeback" /\ read(rec, traced) /\ handle_chargeback(rec)

Next ==
    \/ Deposit(FALSE)
    \/ Withdrawal(FALSE)
    \/ Dispute(FALSE)
    \/ Resolve(FALSE)
    \/ Chargeback(FALSE)

Spec == Init /\ [][Next]_vars

\* The same run, with the records read so far kept in history.
NextTrace ==
    \/ Deposit(TRUE)
    \/ Withdrawal(TRUE)
    \/ Dispute(TRUE)
    \/ Resolve(TRUE)
    \/ Chargeback(TRUE)

SpecTrace == Init /\ [][NextTrace]_vars

\* ---- vocabulary of the properties ---------------------------------------
Rec(act, c, tx, amt) ==
    [action |-> act, client |-> c, transaction |-> tx, amount |-> amt]

IsRecord   == count > 0
IsChain(r) == r.action \in {"dispute", "resolve", "chargeback"}
One(k, v)  == [x \in {k} |-> v]

\* The balances of every account, without the locked flag.
Balances(accs) ==
    [c \in DOMAIN accs |-> <<accs[c].available, accs[c].held, accs[c].total>>]

\* Over a trace h of records read (SpecTrace):
\* the positions that record an entry for tx in the log,
Recordings(h, tx) ==
    {j \in 1..Len(h) : /\ h[j].action \in {"deposit", "withdrawal"}
                       /\ h[j].transaction = tx
                       /\ h[j].amount # None}

\* the positions of the disputes, resolves and chargebacks of tx,
ChainOn(h, tx) == {j \in 1..Len(h) : IsChain(h[j]) /\ h[j].transaction = tx}

\* the last of them (0 when there is none).
LastChainOn(h, tx) ==
    IF ChainOn(h, tx) = {} THEN 0
    ELSE CHOOSE j \in ChainOn(h, tx) : \A k \in ChainOn(h, tx) : k <= j

\* tx was recorded once, by a deposit of client c, and no chargeback was
\* ever read for c: the entry is c's and c's account has never been locked.
OwnedEntry(h, c, tx) ==
    /\ \E j \in 1..Len(h) :
          /\ Recordings(h, tx) = {j}
          /\ h[j].action = "deposit"
          /\ h[j].client = c
    /\ \A j \in 1..Len(h) : ~(h[j].action = "chargeback" /\ h[j].client = c)

NeverDisputed(h, tx) ==
    \A j \in 1..Len(h) : ~(h[j].action = "dispute" /\ h[j].transaction = tx)

\* The last dispute, resolve or chargeback of c's entry tx is a resolve by c.
ResolvedLast(h, c, tx) ==
    /\ LastChainOn(h, tx) # 0
    /\ h[LastChainOn(h, tx)] = Rec("resolve", c, tx, None)

\* c's entry tx is surely not under dispute after h.
NotUnderDispute(h, c, tx) ==
    /\ OwnedEntry(h, c, tx)
    /\ NeverDisputed(h, tx) \/ ResolvedLast(h, c, tx)

\* ---- C1 ----------------------------------------------------------------
\* C1: after any sequence of events, every account in the store satisfies
\* total = available + held.
C1_TotalIsAvailablePlusHeld ==
    \A c \in DOMAIN accounts :
        accounts[c].total = accounts[c].available + accounts[c].held

\* A chargeback has just been applied to an account that still has funds
\* available and funds on hold: all three balances are in play.
C1_Witness ==
    /\ record.action = "chargeback"
    /\ \E c \in DOMAIN accounts :
          /\ accounts[c].locked
          /\ accounts[c].available > 0
          /\ accounts[c].held > 0

\* ---- C2 ----------------------------------------------------------------
\* C2: locked is monotonic: an account that is locked stays in the store
\* and stays locked over every step, whatever record is read.
C2_LockedMonotonic ==
    [][\A c \in DOMAIN accounts :
          accounts[c].locked =>
              (c \in DOMAIN accounts' /\ accounts'[c].locked)]_vars

\* A deposit has just been applied to an account that is locked.
C2_Witness ==
    /\ record.action = "deposit" /\ ~panicked
    /\ accounts[record.client].locked
    /\ accounts[record.client].available > 0

\* ---- C3 ----------------------------------------------------------------
\* C3 (as claimed): a record addressed to a locked account leaves the
\* account's available, held and total unchanged.
C3_LockedAccountFrozen ==
    [][\A c \in DOMAIN accounts :
          (accounts[c].locked /\ count' = count + 1 /\ record'.client = c) =>
              /\ accounts'[c].available = accounts[c].available
              /\ accounts'[c].held = accounts[c].held
              /\ accounts'[c].total = accounts[c].total]_vars

\* ---- C4 ----------------------------------------------------------------
\* C4: from the empty store, Deposit(tx, a) then Dispute(tx) leave the
\* client's account at available 0, held a, total a; a Resolve(tx) read next
\* leaves available a, held 0, total a; a Chargeback(tx) read next instead
\* leaves available 0, held 0, total 0, locked.  (Two records have been
\* read, the second is the dispute and the log holds the deposit alone:
\* the first record was that deposit.)
C4_Ordering ==
    [][\A c \in Clients, tx \in Txs, a \in Amounts :
          ( /\ count = 2
            /\ record = Rec("dispute", c, tx, None)
            /\ transaction_log = One(tx, Rec("deposit", c, tx, Some(a))) )
          =>
          /\ accounts = One(c, ClientAccount(c, 0, a, a, FALSE))
          /\ record' = Rec("resolve", c, tx, None) =>
                 accounts' = One(c, ClientAccount(c, a, 0, a, FALSE))
          /\ record' = Rec("chargeback", c, tx, None) =>
                 accounts' = One(c, ClientAccount(c, 0, 0, 0, TRUE))]_vars

\* Deposit, Dispute, Chargeback of one transaction have been read, in
\* that order, from the empty store.
C4_Witness ==
    /\ count = 3
    /\ \E c \in Clients, tx \in Txs, a \in Amounts :
          /\ record = Rec("chargeback", c, tx, None)
          /\ transaction_log = One(tx, Rec("deposit", c, tx, Some(a)))
          /\ accounts = One(c, ClientAccount(c, 0, 0, 0, TRUE))

\* ---- C5 ----------------------------------------------------------------
\* C5 (as claimed): after a dispute of a recorded tx, a resolve or
\* chargeback of that tx that has just been processed and is sent again
\* leaves every account's available, held, total and locked as the first
\* one left them.
C5_ResendIsNoOp ==
    [][( /\ count' = count + 1
         /\ record'.action \in {"resolve", "chargeback"}
         /\ record' = record
         /\ record.transaction \in DOMAIN transaction_log
         /\ \E i \in 1..Len(history) :
               history[i] = Rec("dispute", record.client, record.transaction, None) )
       => accounts' = accounts]_vars

\* ---- C6 ----------------------------------------------------------------
\* C6 (as claimed): a chargeback of a recorded tx that is not under dispute
\* (never disputed, or disputed and resolved since) changes no account; and
\* an account becomes locked only by a chargeback of a tx that the same
\* client disputed before.
C6_ChargebackNeedsDispute ==
    [][/\ ( /\ count' = count + 1
            /\ record'.action = "chargeback"
            /\ record'.transaction \in DOMAIN transaction_log
            /\ NotUnderDispute(history, record'.client, record'.transaction) )
          => accounts' = accounts
       /\ \A c \in DOMAIN accounts' :
            ( /\ accounts'[c].locked
              /\ ~(c \in DOMAIN accounts /\ accounts[c].locked) )
            => /\ record'.action = "chargeback"
               /\ record'.client = c
               /\ \E i \in 1..Len(history) :
                     history[i] = Rec("dispute", c, record'.transaction, None)]_vars

\* ---- C7 ----------------------------------------------------------------
\* C7 (as claimed): a resolve of a recorded tx that is not under dispute
\* leaves available, held and total of every account unchanged.
C7_ResolveNeedsDispute ==
    [][( /\ count' = count + 1
         /\ record'.action = "resolve"
         /\ record'.transaction \in DOMAIN transaction_log
         /\ NotUnderDispute(history, record'.client, record'.transaction) )
       => Balances(accounts') = Balances(accounts)]_vars

\* ---- C8 ----------------------------------------------------------------
\* C8 (as claimed): a dispute of a recorded tx whose last dispute, resolve
\* or chargeback is a dispute by the same client, read after the entry was
\* recorded, moves no funds.
C8_SecondDisputeIgnored ==
    [][( /\ count' = count + 1
         /\ record'.action = "dispute"
         /\ Recordings(history, record'.transaction) # {}
         /\ LastChainOn(history, record'.transaction) # 0
         /\ history[LastChainOn(history, record'.transaction)] = record'
         /\ \A j \in Recordings(history, record'.transaction) :
               j < LastChainOn(history, record'.transaction) )
       => Balances(accounts') = Balances(accounts)]_vars

\* ---- C9 ----------------------------------------------------------------
\* C9 (as claimed): a dispute, resolve or chargeback whose client is not the
\* client of the recorded entry it references changes no account.
C9_ForeignClientIgnored ==
    [][( /\ count' = count + 1
         /\ IsChain(record')
         /\ record'.transaction \in DOMAIN transaction_log
         /\ transaction_log[record'.transaction].client # record'.client )
       => accounts' = accounts]_vars

\* ---- C10 ---------------------------------------------------------------
\* C10: a dispute, resolve or chargeback that references a tx with no
\* recorded entry leaves every account (and the log) as it was and does
\* not abort the run.
C10_UnknownTxIgnored ==
    [][( /\ count' = count + 1
         /\ IsChain(record')
         /\ record'.transaction \notin DOMAIN transaction_log )
       => /\ accounts' = accounts
          /\ transaction_log' = transaction_log
          /\ ~panicked']_vars

\* A dispute, resolve or chargeback of an unrecorded tx has just been read
\* for a client whose account exists and has funds on hold.
C10_Witness ==
    /\ IsChain(record)
    /\ record.transaction \notin DOMAIN transaction_log
    /\ record.client \in DOMAIN accounts
    /\ accounts[record.client].held > 0
    /\ ~panicked

\* ---- C11 ---------------------------------------------------------------
\* C11: a withdrawal whose amount exceeds the available balance of the
\* client's account leaves that account (available, held, total, locked)
\* as it was.
C11_InsufficientFundsIgnored ==
    [][( /\ count' = count + 1
         /\ record'.action = "withdrawal"
         /\ record'.amount # None
         /\ record'.client \in DOMAIN accounts
         /\ unwrap(record'.amount) > accounts[record'.client].available )
       => /\ record'.client \in DOMAIN accounts'
          /\ accounts'[record'.client] = accounts[record'.client]]_vars

\* A deposit of 1 and then a withdrawal of 2 by the same client have been
\* read; the account still holds 1.
C11_Witness ==
    /\ count = 2
    /\ \E c \in Clients, t1, t2 \in Txs :
          /\ t1 # t2
          /\ record = Rec("withdrawal", c, t2, Some(2))
          /\ t1 \in DOMAIN transaction_log
          /\ transaction_log[t1] = Rec("deposit", c, t1, Some(1))
          /\ accounts = One(c, ClientAccount(c, 1, 0, 1, FALSE))

\* ---- C12 ---------------------------------------------------------------
\* C12 (as claimed): a withdrawal that is ignored (no account, account
\* locked, or available < amount) leaves the transaction log unchanged.
C12_IgnoredWithdrawalNotLogged ==
    [][( /\ count' = count + 1
         /\ record'.action = "withdrawal"
         /\ record'.amount # None
         /\ \/ record'.client \notin DOMAIN accounts
            \/ accounts[record'.client].locked
            \/ accounts[record'.client].available < unwrap(record'.amount) )
       => transaction_log' = transaction_log]_vars

\* ---- C13 ---------------------------------------------------------------
\* C13: a deposit of a for a client with no account creates the account
\* with available a, held 0, total a, locked false.
C13_DepositCreatesAccount ==
    [][( /\ count' = count + 1
         /\ record'.action = "deposit"
         /\ record'.amount # None
         /\ record'.client \notin DOMAIN accounts )
       => /\ record'.client \in DOMAIN accounts'
          /\ accounts'[record'.client] =
                ClientAccount(record'.client, unwrap(record'.amount), 0,
                              unwrap(record'.amount), FALSE)]_vars

\* Two records have been read, the second a deposit, and there are two
\* accounts: the deposit created the second one.
C13_Witness ==
    /\ count = 2
    /\ record.action = "deposit"
    /\ ~panicked
    /\ DOMAIN accounts = Clients
    /\ accounts[record.client].total = unwrap(record.amount)

\* ---- C14 ---------------------------------------------------------------
\* C14: no step removes an account, and a withdrawal, dispute, resolve or
\* chargeback leaves the set of accounts as it was.
C14_OnlyDepositCreates ==
    [][/\ DOMAIN accounts \subseteq DOMAIN accounts'
       /\ (count' = count + 1 /\ record'.action # "deposit")
             => DOMAIN accounts' = DOMAIN accounts]_vars

\* A withdrawal, dispute, resolve or chargeback has just been read for a
\* client that has no account, while another client has one.
C14_Witness ==
    /\ count > 0
    /\ record.action # "deposit"
    /\ ~panicked
    /\ record.client \notin DOMAIN accounts
    /\ DOMAIN accounts # {}

\* ---- C15 ---------------------------------------------------------------
\* C15: a deposit or withdrawal stores its record under its tx, replacing
\* whatever was stored there; and after two deposits a1, a2 of one client
\* under one tx (the log holds that tx alone, the account holds a1 + a2),
\* a dispute of the tx moves a2, the amount recorded last.
C15_LastWriteWins ==
    [][/\ ( /\ count' = count + 1
            /\ record'.action \in {"deposit", "withdrawal"}
            /\ record'.amount # None )
          => /\ record'.transaction \in DOMAIN transaction_log'
             /\ transaction_log'[record'.transaction] = record'
       /\ \A c \in Clients, tx \in Txs, a1, a2 \in Amounts :
            ( /\ count = 2
              /\ record = Rec("deposit", c, tx, Some(a2))
              /\ DOMAIN transaction_log = {tx}
              /\ accounts = One(c, ClientAccount(c, a1 + a2, 0, a1 + a2, FALSE))
              /\ record' = Rec("dispute", c, tx, None) )
            => accounts' = One(c, ClientAccount(c, a1, a2, a1 + a2, FALSE))]_vars

\* Deposits of 1 and then 2 under one tx, then a dispute of the tx: 2 is
\* held, 1 stays available.
C15_Witness ==
    /\ count = 3
    /\ \E c \in Clients, tx \in Txs :
          /\ record = Rec("dispute", c, tx, None)
          /\ transaction_log = One(tx, Rec("deposit", c, tx, Some(2)))
          /\ accounts = One(c, ClientAccount(c, 1, 2, 3, FALSE))

\* ---- C16 ---------------------------------------------------------------
\* C16: a step leaves the accounts of all clients other than the client
\* of the record it reads as they were, and creates none for them.
C16_OtherAccountsUntouched ==
    [][count' = count + 1 =>
          /\ \A c \in DOMAIN accounts :
                c # record'.client =>
                    (c \in DOMAIN accounts' /\ accounts'[c] = accounts[c])
          /\ DOMAIN accounts' \subseteq DOMAIN accounts \cup {record'.client}]_vars

\* A dispute, resolve or chargeback by one client of a transaction logged
\* for the other client has just been applied, both accounts existing.
C16_Witness ==
    /\ IsChain(record)
    /\ DOMAIN accounts = Clients
    /\ record.transaction \in DOMAIN transaction_log
    /\ transaction_log[record.transaction].client # record.client
    /\ accounts[record.client].held # 0

\* ---- C17 ---------------------------------------------------------------
\* C17: a deposit of a on an existing unlocked account raises available
\* and total by a, leaves held and locked as they were, and stores the
\* deposit in the log under its tx.
C17_DepositOnExisting ==
    [][( /\ count' = count + 1
         /\ record'.action = "deposit"
         /\ record'.amount # None
         /\ record'.client \in DOMAIN accounts
         /\ ~accounts[record'.client].locked )
       => /\ record'.client \in DOMAIN accounts'
          /\ accounts'[record'.client] =
                ClientAccount(record'.client,
                    accounts[record'.client].available + unwrap(record'.amount),
                    accounts[record'.client].held,
                    accounts[record'.client].total + unwrap(record'.amount),
                    FALSE)
          /\ record'.transaction \in DOMAIN transaction_log'
          /\ transaction_log'[record'.transaction] = record']_vars

\* Two deposits for one client have been read: the second found the
\* account the first created.
C17_Witness ==
    /\ count = 2
    /\ record.action = "deposit"
    /\ ~panicked
    /\ record.client \in DOMAIN accounts
    /\ accounts[record.client].available > unwrap(record.amount)
    /\ accounts[record.client].held = 0
    /\ ~accounts[record.client].locked

\* ---- C18 ---------------------------------------------------------------
\* C18: a withdrawal of a on an existing unlocked account with
\* available >= a lowers available and total by a and leaves held and
\* locked as they were.
C18_WithdrawalApplied ==
    [][( /\ count' = count + 1
         /\ record'.action = "withdrawal"
         /\ record'.amount # None
         /\ record'.client \in DOMAIN accounts
         /\ ~accounts[record'.client].locked
         /\ accounts[record'.client].available >= unwrap(record'.amount) )
       => /\ record'.client \in DOMAIN accounts'
          /\ accounts'[record'.client] =
                ClientAccount(record'.client,
                    accounts[record'.client].available - unwrap(record'.amount),
                    accounts[record'.client].held,
                    accounts[record'.client].total - unwrap(record'.amount),
                    FALSE)]_vars

\* A deposit and then a withdrawal of the whole balance have been read:
\* available = amount exactly, and the account is down to 0.
C18_Witness ==
    /\ count = 2
    /\ record.action = "withdrawal"
    /\ record.client \in DOMAIN accounts
    /\ accounts[record.client] = ClientAccount(record.client, 0, 0, 0, FALSE)

\* ---- C19 ---------------------------------------------------------------
\* C19: a dispute of a logged deposit or withdrawal of amount a by the
\* client that owns it, on an unlocked account, lowers available by a,
\* raises held by a and leaves total and locked as they were.
C19_DisputeApplied ==
    [][( /\ count' = count + 1
         /\ record'.action = "dispute"
         /\ record'.client \in DOMAIN accounts
         /\ ~accounts[record'.client].locked
         /\ record'.transaction \in DOMAIN transaction_log
         /\ transaction_log[record'.transaction].client = record'.client )
       => /\ record'.client \in DOMAIN accounts'
          /\ accounts'[record'.client] =
                ClientAccount(record'.client,
                    accounts[record'.client].available
                        - unwrap(transaction_log[record'.transaction].amount),
                    accounts[record'.client].held
                        + unwrap(transaction_log[record'.transaction].amount),
                    accounts[record'.client].total,
                    FALSE)]_vars

\* A deposit, a withdrawal and the dispute of that withdrawal have been
\* read for one client: the withdrawn amount is held.
C19_Witness ==
    /\ count = 3
    /\ record.action = "dispute"
    /\ record.client \in DOMAIN accounts
    /\ ~accounts[record.client].locked
    /\ record.transaction \in DOMAIN transaction_log
    /\ transaction_log[record.transaction].action = "withdrawal"
    /\ transaction_log[record.transaction].client = record.client
    /\ accounts[record.client].held =
          unwrap(transaction_log[record.transaction].amount)

\* ---- C20 ---------------------------------------------------------------
\* C20: a resolve of a logged entry of amount a by the client that owns
\* it, on an unlocked account (in particular when the entry is under
\* dispute), raises available by a, lowers held by a and leaves total and
\* locked as they were.
C20_ResolveApplied ==
    [][( /\ count' = count + 1
         /\ record'.action = "resolve"
         /\ record'.client \in DOMAIN accounts
         /\ ~accounts[record'.client].locked
         /\ record'.transaction \in DOMAIN transaction_log
         /\ transaction_log[record'.transaction].client = record'.client )
       => /\ record'.client \in DOMAIN accounts'
          /\ accounts'[record'.client] =
                ClientAccount(record'.client,
                    accounts[record'.client].available
                        + unwrap(transaction_log[record'.transaction].amount),
                    accounts[record'.client].held
                        - unwrap(transaction_log[record'.transaction].amount),
                    accounts[record'.client].total,
                    FALSE)]_vars

\* Two deposits, the dispute of one and its resolve have been read for
\* one client: nothing is held any more and both deposits are available.
C20_Witness ==
    /\ count = 4
    /\ record.action = "resolve"
    /\ record.client \in DOMAIN accounts
    /\ ~accounts[record.client].locked
    /\ Cardinality(DOMAIN transaction_log) = 2
    /\ \A t \in DOMAIN transaction_log :
          /\ transaction_log[t].action = "deposit"
          /\ transaction_log[t].client = record.client
    /\ accounts[record.client].held = 0
    /\ accounts[record.client].available = accounts[record.client].total
    /\ accounts[record.client].available =
          unwrap(transaction_log[1].amount) + unwrap(transaction_log[2].amount)

\* ---- C21 ---------------------------------------------------------------
\* C21: a chargeback of a logged entry of amount a by the client that owns
\* it, on an unlocked account (in particular when the entry is under
\* dispute), lowers held and total by a, leaves available as it was and
\* sets locked.
C21_ChargebackApplied ==
    [][( /\ count' = count + 1
         /\ record'.action = "chargeback"
         /\ record'.client \in DOMAIN accounts
         /\ ~accounts[record'.client].locked
         /\ record'.transaction \in DOMAIN transaction_log
         /\ transaction_log[record'.transaction].client = record'.client )
       => /\ record'.client \in DOMAIN accounts'
          /\ accounts'[record'.client] =
                ClientAccount(record'.client,
                    accounts[record'.client].available,
                    accounts[record'.client].held
                        - unwrap(transaction_log[record'.transaction].amount),
                    accounts[record'.client].total
                        - unwrap(transaction_log[record'.transaction].amount),
                    TRUE)]_vars

\* A chargeback has just locked an account that was unlocked and had the
\* amount of the entry on hold; the rest of its funds is still available.
C21_Witness ==
    /\ record.action = "chargeback"
    /\ record.client \in DOMAIN before
    /\ ~before[record.client].locked
    /\ record.transaction \in DOMAIN transaction_log
    /\ transaction_log[record.transaction].client = record.client
    /\ before[record.client].held =
          unwrap(transaction_log[record.transaction].amount)
    /\ accounts[record.client].locked
    /\ accounts[record.client].held = 0
    /\ accounts[record.client].available > 0
    /\ accounts[record.client].total = accounts[record.client].available

\* ---- C22 ---------------------------------------------------------------
\* C22: when the dispute of a logged tx has just been applied to an
\* unlocked account and the resolve of the same tx by the same client is
\* read next, every account is back to what it was before the dispute;
\* and when the dispute is read again after that resolve, the accounts are
\* back to what they were after the first one.
C22_DisputeResolveRoundTrip ==
    [][\A c \in Clients, tx \in Txs :
          ( /\ count' = count + 1
            /\ c \in DOMAIN before
            /\ ~before[c].locked
            /\ tx \in DOMAIN transaction_log )
          =>
          /\ ( /\ record = Rec("dispute", c, tx, None)
               /\ record' = Rec("resolve", c, tx, None) )
             => accounts' = before
          /\ ( /\ record = Rec("resolve", c, tx, None)
               /\ record' = Rec("dispute", c, tx, None) )
             => accounts' = before]_vars

\* Deposit, dispute and resolve of one tx have been read from the empty
\* store: the dispute had put the amount on hold, the resolve has released
\* it.
C22_Witness ==
    /\ count = 3
    /\ \E c \in Clients, tx \in Txs, a \in Amounts :
          /\ record = Rec("resolve", c, tx, None)
          /\ transaction_log = One(tx, Rec("deposit", c, tx, Some(a)))
          /\ before = One(c, ClientAccount(c, 0, a, a, FALSE))
          /\ accounts = One(c, ClientAccount(c, a, 0, a, FALSE))

\* ---- C23 ---------------------------------------------------------------
\* C23: the log holds only deposit and withdrawal records that carry an
\* amount, each under its own tx; and the run aborts only on a deposit or
\* withdrawal without an amount, which is not in the log: no dispute,
\* resolve or chargeback ever fails on a missing amount.
C23_LogHoldsAmounts ==
    /\ \A t \in DOMAIN transaction_log :
          /\ transaction_log[t].action \in {"deposit", "withdrawal"}
          /\ transaction_log[t].amount # None
          /\ transaction_log[t].transaction = t
    /\ panicked =>
          /\ record.action \in {"deposit", "withdrawal"}
          /\ record.amount = None
    /\ IsChain(record) => ~panicked

\* A dispute, resolve or chargeback has just used the amount of a logged
\* withdrawal, with a deposit in the log as well.
C23_Witness ==
    /\ IsChain(record)
    /\ ~panicked
    /\ record.client \in DOMAIN accounts
    /\ record.transaction \in DOMAIN transaction_log
    /\ transaction_log[record.transaction].action = "withdrawal"
    /\ \E t \in DOMAIN transaction_log : transaction_log[t].action = "deposit"
    /\ accounts # before

====
